---- MODULE Spec2Model ----
(***************************************************************************)
(* A model of the almost-equal substring matcher (src/solution.py and      *)
(* src/ROUND_6/solution.py) and of the document service                    *)
(* (src/python-pdf-service/main.py): its two upload handlers and the       *)
(* thread-per-image OCR fan-out.                                           *)
(*                                                                         *)
(* Python offsets are 0-based; TLA+ sequences are 1-based, so the window   *)
(* at offset i of a text s is SubSeq(s, i + 1, i + m).                     *)
(***************************************************************************)
EXTENDS Integers, Sequences, FiniteSets, TLC

VARIABLES
    active,     \* the invocations of the matcher that exist
    fn,         \* fn[c]: which of the two functions invocation c runs
    s, p,       \* s[c], p[c]: the arguments (text, pattern) of invocation c
    args0,      \* history: the arguments as they were passed
    pc,         \* pc[c]: the position of invocation c in its code
    n, m,       \* the locals n, m of invocation c
    i,          \* the outer loop variable
    window,     \* the slice s[i:i+m] being compared
    j,          \* how many pairs zip() has yielded for the current window
    diff,       \* the mismatch counter (diff / differences)
    almost,     \* the value is_almost_equal returned (ROUND_6 only)
    ret,        \* the value returned, meaningful when pc[c] = "returned"
    exc,        \* the exception raised, meaningful when pc[c] = "raised"
    ncmp,       \* history: element comparisons made by invocation c so far
    req,            \* the upload being served: its endpoint and file.filename
    mistral_client, \* whether the module-level Mistral client was created
    hpc,            \* the position of the request handler
    inflight,       \* the exception that is propagating, if any
    response,       \* the HTTP response sent to the client
    page_count,     \* pdf_document.page_count
    page_num,       \* pages handled so far by the handler's loop
    total_chars,    \* the running total of characters (extract_pdf_text)
    temp_dir,       \* the temporary directory of process_pptx
    pages,          \* the pages process_pptx has built
    opc,            \* the position of process_images_parallel
    client,         \* its argument client (TRUE: a client, FALSE: None)
    image_paths,    \* its argument image_paths
    results,        \* its list results, one slot per image
    idx,            \* threads started so far
    wpc,            \* wpc[k]: the state of the thread of image k
    wres,           \* wres[k]: what ocr_image_with_mistral returned in thread k
    jidx,           \* threads joined so far
    ocr_results     \* the list process_images_parallel returned

mvars == <<active, fn, s, p, args0, pc, n, m, i, window, j, diff, almost, ret, exc, ncmp>>

svars == <<req, mistral_client, hpc, inflight, response, page_count, page_num,
           total_chars, temp_dir, pages>>

ovars == <<opc, client, image_paths, results, idx, wpc, wres, jidx, ocr_results>>

vars == <<mvars, svars, ovars>>

----------------------------------------------------------------------------
(* Bounds *)

\* longest text and pattern of the single-invocation specification
MaxLen == 3
\* longest text and pattern of the concurrent specification
ConcLen == 2

Alphabet == {"a", "b"}

----------------------------------------------------------------------------
(* Python values *)

\* an argument is a sequence of characters or None
Str(q) == [none |-> FALSE, seq |-> q]
NoneVal == [none |-> TRUE, seq |-> <<>>]

SeqsUpTo(k) == UNION {[1..l -> Alphabet] : l \in 0..k}

Min(a, b) == IF a <= b THEN a ELSE b

\* len(x) raises TypeError when x is None
RaisesNever(x) == FALSE
LenRaises(x) == x.none

PyLen(x) == Len(x.seq)

\* q[lo:hi] for 0 <= lo: the elements at offsets lo .. hi-1 that exist
PySlice(q, lo, hi) == SubSeq(q, lo + 1, Min(hi, Len(q)))

\* zip(u, v) yields min(len(u), len(v)) pairs
ZipLen(u, v) == Min(Len(u), Len(v))

----------------------------------------------------------------------------
(* find_almost_equal, src/solution.py *)

\* range(n - m + 1): the number of values the outer loop takes
FaeRangeShort(nn, mm) == nn - mm
FaeRangeText(nn, mm) == nn
FaeRange(nn, mm) == nn - mm + 1

\* line 8: if diff > 1: break
FaeBreakLate(d) == d > 2
FaeBreak(d) == d > 1

\* line 10: if diff <= 1: return i
FaeAcceptExact(d) == d < 1
FaeAccept(d) == d <= 1

\* diff is a local of the invocation: each invocation has a counter of its own
SharedSlot(c) == 1
DiffSlot(c) == c

\* line 2: n, m = len(s), len(p)
FaeCall(c) ==
    /\ pc[c] = "call" /\ fn[c] = "find_almost_equal"
    /\ IF LenRaises(s[c]) \/ LenRaises(p[c])
       THEN /\ pc' = [pc EXCEPT ![c] = "raised"]
            /\ exc' = [exc EXCEPT ![c] = "TypeError"]
            /\ UNCHANGED <<n, m>>
       ELSE /\ n' = [n EXCEPT ![c] = PyLen(s[c])]
            /\ m' = [m EXCEPT ![c] = PyLen(p[c])]
            /\ pc' = [pc EXCEPT ![c] = "for_i"]
            /\ exc' = exc
    /\ UNCHANGED <<active, fn, s, p, args0, i, window, j, diff, almost, ret, ncmp>>
    /\ UNCHANGED <<svars, ovars>>

\* lines 3-5 and 12: the next value of i, diff = 0 and the slice; or return -1
FaeFor(c) ==
    /\ pc[c] = "for_i" /\ fn[c] = "find_almost_equal"
    /\ IF i[c] < FaeRange(n[c], m[c])
       THEN /\ diff' = [diff EXCEPT ![DiffSlot(c)] = 0]
            /\ window' = [window EXCEPT ![c] = PySlice(s[c].seq, i[c], i[c] + m[c])]
            /\ j' = [j EXCEPT ![c] = 0]
            /\ pc' = [pc EXCEPT ![c] = "zip"]
            /\ ret' = ret
       ELSE /\ pc' = [pc EXCEPT ![c] = "returned"]
            /\ ret' = [ret EXCEPT ![c] = -1]
            /\ UNCHANGED <<diff, window, j>>
    /\ UNCHANGED <<active, fn, s, p, args0, n, m, i, almost, exc, ncmp>>
    /\ UNCHANGED <<svars, ovars>>

\* lines 5-9: one pair of zip(s[i:i+m], p)
FaeZip(c) ==
    /\ pc[c] = "zip" /\ fn[c] = "find_almost_equal"
    /\ IF j[c] < ZipLen(window[c], p[c].seq)
       THEN LET a == window[c][j[c] + 1]
                b == p[c].seq[j[c] + 1]
                d == IF a # b THEN diff[DiffSlot(c)] + 1 ELSE diff[DiffSlot(c)]
            IN /\ j' = [j EXCEPT ![c] = j[c] + 1]
               /\ ncmp' = [ncmp EXCEPT ![c] = ncmp[c] + 1]
               /\ diff' = [diff EXCEPT ![DiffSlot(c)] = d]
               /\ pc' = [pc EXCEPT ![c] = IF a # b /\ FaeBreak(d) THEN "if_diff" ELSE "zip"]
       ELSE /\ pc' = [pc EXCEPT ![c] = "if_diff"]
            /\ UNCHANGED <<j, ncmp, diff>>
    /\ UNCHANGED <<active, fn, s, p, args0, n, m, i, window, almost, ret, exc>>
    /\ UNCHANGED <<svars, ovars>>

\* lines 10-11: if diff <= 1: return i
FaeIf(c) ==
    /\ pc[c] = "if_diff" /\ fn[c] = "find_almost_equal"
    /\ IF FaeAccept(diff[DiffSlot(c)])
       THEN /\ pc' = [pc EXCEPT ![c] = "returned"]
            /\ ret' = [ret EXCEPT ![c] = i[c]]
            /\ i' = i
       ELSE /\ i' = [i EXCEPT ![c] = i[c] + 1]
            /\ pc' = [pc EXCEPT ![c] = "for_i"]
            /\ ret' = ret
    /\ UNCHANGED <<active, fn, s, p, args0, n, m, window, j, diff, almost, exc, ncmp>>
    /\ UNCHANGED <<svars, ovars>>

----------------------------------------------------------------------------
(* find_almost_equal_substring, src/ROUND_6/solution.py *)

\* range(n - m + 1)
FasRangeShort(nn, mm) == nn - mm
FasRange(nn, mm) == nn - mm + 1

\* line 9: if differences > 1: return False
FasTooManyLate(d) == d > 2
FasTooMany(d) == d > 1

\* line 13: n, m = len(s), len(pattern)
FasCall(c) ==
    /\ pc[c] = "call" /\ fn[c] = "find_almost_equal_substring"
    /\ IF LenRaises(s[c]) \/ LenRaises(p[c])
       THEN /\ pc' = [pc EXCEPT ![c] = "raised"]
            /\ exc' = [exc EXCEPT ![c] = "TypeError"]
            /\ UNCHANGED <<n, m>>
       ELSE /\ n' = [n EXCEPT ![c] = PyLen(s[c])]
            /\ m' = [m EXCEPT ![c] = PyLen(p[c])]
            /\ pc' = [pc EXCEPT ![c] = "for_i"]
            /\ exc' = exc
    /\ UNCHANGED <<active, fn, s, p, args0, i, window, j, diff, almost, ret, ncmp>>
    /\ UNCHANGED <<svars, ovars>>

\* lines 14-16, 18 and 3-5: the next substring and the entry of
\* is_almost_equal (its length test, differences = 0); or return -1
FasFor(c) ==
    /\ pc[c] = "for_i" /\ fn[c] = "find_almost_equal_substring"
    /\ IF i[c] < FasRange(n[c], m[c])
       THEN LET substring == PySlice(s[c].seq, i[c], i[c] + m[c])
            IN /\ window' = [window EXCEPT ![c] = substring]
               /\ j' = [j EXCEPT ![c] = 0]
               /\ IF Len(substring) # Len(p[c].seq)
                  THEN /\ almost' = [almost EXCEPT ![c] = FALSE]
                       /\ pc' = [pc EXCEPT ![c] = "if_almost"]
                       /\ diff' = diff
                  ELSE /\ diff' = [diff EXCEPT ![c] = 0]
                       /\ pc' = [pc EXCEPT ![c] = "is_zip"]
                       /\ almost' = almost
               /\ ret' = ret
       ELSE /\ pc' = [pc EXCEPT ![c] = "returned"]
            /\ ret' = [ret EXCEPT ![c] = -1]
            /\ UNCHANGED <<diff, window, j, almost>>
    /\ UNCHANGED <<active, fn, s, p, args0, n, m, i, exc, ncmp>>
    /\ UNCHANGED <<svars, ovars>>

\* lines 6-11: one pair of zip(s1, s2), or return True when zip is exhausted
IsZip(c) ==
    /\ pc[c] = "is_zip" /\ fn[c] = "find_almost_equal_substring"
    /\ IF j[c] < ZipLen(window[c], p[c].seq)
       THEN LET c1 == window[c][j[c] + 1]
                c2 == p[c].seq[j[c] + 1]
                d == IF c1 # c2 THEN diff[c] + 1 ELSE diff[c]
            IN /\ j' = [j EXCEPT ![c] = j[c] + 1]
               /\ ncmp' = [ncmp EXCEPT ![c] = ncmp[c] + 1]
               /\ diff' = [diff EXCEPT ![c] = d]
               /\ IF FasTooMany(d)
                  THEN /\ almost' = [almost EXCEPT ![c] = FALSE]
                       /\ pc' = [pc EXCEPT ![c] = "if_almost"]
                  ELSE UNCHANGED <<almost, pc>>
       ELSE /\ almost' = [almost EXCEPT ![c] = TRUE]
            /\ pc' = [pc EXCEPT ![c] = "if_almost"]
            /\ UNCHANGED <<j, ncmp, diff>>
    /\ UNCHANGED <<active, fn, s, p, args0, n, m, i, window, ret, exc>>
    /\ UNCHANGED <<svars, ovars>>

\* lines 16-17: if is_almost_equal(substring, pattern): return i
FasIf(c) ==
    /\ pc[c] = "if_almost" /\ fn[c] = "find_almost_equal_substring"
    /\ IF almost[c]
       THEN /\ pc' = [pc EXCEPT ![c] = "returned"]
            /\ ret' = [ret EXCEPT ![c] = i[c]]
            /\ i' = i
       ELSE /\ i' = [i EXCEPT ![c] = i[c] + 1]
            /\ pc' = [pc EXCEPT ![c] = "for_i"]
            /\ ret' = ret
    /\ UNCHANGED <<active, fn, s, p, args0, n, m, window, j, diff, almost, exc, ncmp>>
    /\ UNCHANGED <<svars, ovars>>

----------------------------------------------------------------------------
(* The document service, src/python-pdf-service/main.py *)

\* str.lower() on the characters the file names use
LowerChar(ch) ==
    CASE ch = "A" -> "a"
      [] ch = "D" -> "d"
      [] ch = "F" -> "f"
      [] ch = "P" -> "p"
      [] ch = "T" -> "t"
      [] ch = "X" -> "x"
      [] OTHER -> ch

Lower(q) == [k \in 1..Len(q) |-> LowerChar(q[k])]

\* str.endswith
EndsWith(q, suffix) ==
    /\ Len(suffix) <= Len(q)
    /\ SubSeq(q, Len(q) - Len(suffix) + 1, Len(q)) = suffix

DotPdf == <<".", "p", "d", "f">>
DotPptx == <<".", "p", "p", "t", "x">>

\* file.filename: a name, or None when the upload carries none
FileNames ==
    {Str(q) : q \in {<<"a">> \o DotPdf,
                     <<"A", ".", "P", "D", "F">>,
                     <<"a">> \o DotPptx,
                     <<"a", ".", "P", "p", "T", "x">>,
                     <<"a", ".", "t", "x", "t">>,
                     <<"p", "d", "f">>,
                     DotPdf \o <<".", "x">>}} \cup {NoneVal}

Endpoints == {"/extract-text", "/process-pptx"}

\* exceptions: the class, and for an HTTPException its status_code and detail
NoExc == [cls |-> "", status |-> 0, detail |-> <<>>]
HTTPException(code, text) == [cls |-> "HTTPException", status |-> code, detail |-> text]
PyException(class, text) == [cls |-> class, status |-> 0, detail |-> text]

StatusText(code) == CASE code = 400 -> "400" [] code = 500 -> "500" [] OTHER -> "?"

\* str(e): the message of the exception; for an HTTPException
\* "<status_code>: <detail>"
ExcStr(e) ==
    IF e.cls = "HTTPException" THEN <<StatusText(e.status), ": ">> \o e.detail
    ELSE e.detail

\* the classes that derive from Exception: all the ones raised here do,
\* fastapi's HTTPException included
ExceptionSubclasses ==
    {"Exception", "HTTPException", "AttributeError", "FileDataError", "RuntimeError"}

\* lines 120 and 411: except Exception as e
ExceptExceptionCatches(e) == e.cls \in ExceptionSubclasses

NoResponse == [status |-> 0, detail |-> <<>>]
OkResponse == [status |-> 200, detail |-> <<>>]

\* what the client gets for an exception that leaves the handler: an
\* HTTPException's own status_code and detail, else a bare 500
ResponseFor(e) ==
    IF e.cls = "HTTPException" THEN [status |-> e.status, detail |-> e.detail]
    ELSE [status |-> 500, detail |-> <<"Internal Server Error">>]

\* the most pages a PDF of the model holds
MaxPages == 2
\* the most images a presentation or a list of image paths holds
MaxImages == 3

\* lines 58-62: the file type test of extract_pdf_text, inside its try
ExtValidate ==
    /\ hpc = "validate" /\ req.endpoint = "/extract-text"
    /\ IF req.filename.none
       THEN /\ inflight' = PyException("AttributeError", <<"'NoneType' object has no attribute 'lower'">>)
            /\ hpc' = "except"
       ELSE IF ~EndsWith(Lower(req.filename.seq), DotPdf)
       THEN /\ inflight' = HTTPException(400, <<"Only PDF files are supported">>)
            /\ hpc' = "except"
       ELSE /\ hpc' = "open"
            /\ inflight' = inflight
    /\ UNCHANGED <<req, mistral_client, response, page_count, page_num, total_chars, temp_dir, pages>>
    /\ UNCHANGED <<mvars, ovars>>

\* lines 65-73: read the upload and open it; fitz.open raises on a file
\* that is no PDF
ExtOpen ==
    /\ hpc = "open"
    /\ \/ /\ inflight' = PyException("FileDataError", <<"Failed to open stream">>)
          /\ hpc' = "except"
          /\ UNCHANGED <<page_count, page_num, total_chars>>
       \/ /\ \E k \in 0..MaxPages : page_count' = k
          /\ page_num' = 0
          /\ total_chars' = 0
          /\ hpc' = "pages"
          /\ inflight' = inflight
    /\ UNCHANGED <<req, mistral_client, response, temp_dir, pages>>
    /\ UNCHANGED <<mvars, ovars>>

\* lines 76-85: one page of the loop; lines 87-118: the result
ExtPage ==
    /\ hpc = "pages" /\ req.endpoint = "/extract-text"
    /\ IF page_num < page_count
       THEN /\ \E char_count \in 0..1 : total_chars' = total_chars + char_count
            /\ page_num' = page_num + 1
            /\ UNCHANGED <<hpc, response>>
       ELSE /\ response' = OkResponse
            /\ hpc' = "done"
            /\ UNCHANGED <<page_num, total_chars>>
    /\ UNCHANGED <<req, mistral_client, inflight, page_count, temp_dir, pages>>
    /\ UNCHANGED <<mvars, ovars>>

\* lines 120-123: except Exception as e: raise HTTPException(500, ...)
ExtExcept ==
    /\ hpc = "except" /\ req.endpoint = "/extract-text"
    /\ IF ExceptExceptionCatches(inflight)
       THEN inflight' = HTTPException(500, <<"PDF processing failed: ">> \o ExcStr(inflight))
       ELSE inflight' = inflight
    /\ hpc' = "raise_out"
    /\ UNCHANGED <<req, mistral_client, response, page_count, page_num, total_chars, temp_dir, pages>>
    /\ UNCHANGED <<mvars, ovars>>

\* lines 304-312: the file type and client tests of process_pptx, inside its try
PptValidate ==
    /\ hpc = "validate" /\ req.endpoint = "/process-pptx"
    /\ IF req.filename.none
       THEN /\ inflight' = PyException("AttributeError", <<"'NoneType' object has no attribute 'lower'">>)
            /\ hpc' = "except"
       ELSE IF ~EndsWith(Lower(req.filename.seq), DotPptx)
       THEN /\ inflight' = HTTPException(400, <<"Only PPTX files are supported">>)
            /\ hpc' = "except"
       ELSE IF ~mistral_client
       THEN /\ inflight' = HTTPException(500, <<"Mistral OCR service not available - MISTRAL_API_KEY not configured">>)
            /\ hpc' = "except"
       ELSE /\ hpc' = "save"
            /\ inflight' = inflight
    /\ UNCHANGED <<req, mistral_client, response, page_count, page_num, total_chars, temp_dir, pages>>
    /\ UNCHANGED <<mvars, ovars>>

\* lines 315-320: the temporary directory and the saved upload
PptSave ==
    /\ hpc = "save"
    /\ temp_dir' = "exists"
    /\ hpc' = "extract"
    /\ UNCHANGED <<req, mistral_client, inflight, response, page_count, page_num, total_chars, pages>>
    /\ UNCHANGED <<mvars, ovars>>

DigitChars == <<"1", "2", "3", "4", "5", "6", "7", "8", "9">>

\* lines 139-146: the path of the k-th extracted image, in temp_dir
ExtractedPath(k) == <<"t", "/", "i", DigitChars[k]>>

\* lines 322-346: extract_images_from_pptx, which raises on a file that is
\* no presentation; the response for a presentation without images
PptExtract ==
    /\ hpc = "extract"
    /\ \/ /\ inflight' = PyException("Exception", <<"Failed to extract images from PPTX: ">>)
          /\ hpc' = "except"
          /\ UNCHANGED <<response, image_paths>>
       \/ /\ \E k \in 0..MaxImages :
                image_paths' = [x \in 1..k |-> ExtractedPath(x)]
          /\ IF image_paths' = <<>>
             THEN /\ response' = OkResponse
                  /\ hpc' = "finally"
             ELSE /\ hpc' = "ocr_call"
                  /\ response' = response
          /\ inflight' = inflight
    /\ UNCHANGED <<req, mistral_client, page_count, page_num, total_chars, temp_dir, pages>>
    /\ UNCHANGED <<mvars, opc, client, results, idx, wpc, wres, jidx, ocr_results>>

\* line 352: the call of process_images_parallel(image_paths, mistral_client)
PptOcrCall ==
    /\ hpc = "ocr_call"
    /\ client' = mistral_client
    /\ opc' = "enter"
    /\ hpc' = "ocr_wait"
    /\ UNCHANGED <<req, mistral_client, inflight, response, page_count, page_num, total_chars, temp_dir, pages>>
    /\ UNCHANGED <<mvars, image_paths, results, idx, wpc, wres, jidx, ocr_results>>

\* line 352: the call returns its list, or its exception reaches the try
PptOcrReturn ==
    /\ hpc = "ocr_wait"
    /\ opc \in {"returned", "raised"}
    /\ IF opc = "returned"
       THEN /\ hpc' = "pages"
            /\ page_num' = 0
            /\ pages' = <<>>
            /\ inflight' = inflight
       ELSE /\ hpc' = "except"
            /\ inflight' = PyException("Exception", <<"Mistral client not initialized">>)
            /\ UNCHANGED <<page_num, pages>>
    /\ opc' = "idle"
    /\ UNCHANGED <<req, mistral_client, response, page_count, total_chars, temp_dir>>
    /\ UNCHANGED <<mvars, client, image_paths, results, idx, wpc, wres, jidx, ocr_results>>

\* lines 362-377: one page per OCR result; lines 386-409: the result
PptPage ==
    /\ hpc = "pages" /\ req.endpoint = "/process-pptx"
    /\ IF page_num < Len(ocr_results)
       THEN /\ pages' = Append(pages, [page_number |-> page_num + 1,
                                       text |-> ocr_results[page_num + 1].text])
            /\ page_num' = page_num + 1
            /\ UNCHANGED <<hpc, response>>
       ELSE /\ response' = OkResponse
            /\ hpc' = "finally"
            /\ UNCHANGED <<page_num, pages>>
    /\ UNCHANGED <<req, mistral_client, inflight, page_count, total_chars, temp_dir>>
    /\ UNCHANGED <<mvars, ovars>>

\* lines 411-413: except Exception as e: raise HTTPException(500, ...)
PptExcept ==
    /\ hpc = "except" /\ req.endpoint = "/process-pptx"
    /\ IF ExceptExceptionCatches(inflight)
       THEN inflight' = HTTPException(500, <<"PPTX processing failed: ">> \o ExcStr(inflight))
       ELSE inflight' = inflight
    /\ hpc' = "finally"
    /\ UNCHANGED <<req, mistral_client, response, page_count, page_num, total_chars, temp_dir, pages>>
    /\ UNCHANGED <<mvars, ovars>>

\* lines 415-421: finally: remove the temporary directory; then the return
\* value or the exception leaves the handler
PptFinally ==
    /\ hpc = "finally"
    /\ temp_dir' = IF temp_dir = "exists" THEN "removed" ELSE temp_dir
    /\ hpc' = IF inflight = NoExc THEN "done" ELSE "raise_out"
    /\ UNCHANGED <<req, mistral_client, inflight, response, page_count, page_num, total_chars, pages>>
    /\ UNCHANGED <<mvars, ovars>>

\* lines 122-123 and 412-413: the raised exception becomes the response
RespondError ==
    /\ hpc = "raise_out"
    /\ response' = ResponseFor(inflight)
    /\ hpc' = "done"
    /\ UNCHANGED <<req, mistral_client, inflight, page_count, page_num, total_chars, temp_dir, pages>>
    /\ UNCHANGED <<mvars, ovars>>

----------------------------------------------------------------------------
(* process_images_parallel and its worker threads *)

\* os.path.basename: what follows the last "/"
Basename(path) ==
    LET slashes == {k \in 1..Len(path) : path[k] = "/"}
    IN IF slashes = {} THEN path
       ELSE SubSeq(path, (CHOOSE k \in slashes : \A l \in slashes : l <= k) + 1, Len(path))

\* results = [None] * len(image_paths)
NoneResult == [none |-> TRUE, image_path |-> <<>>, text |-> "", error |-> FALSE]

\* lines 255-260: the result of a successful OCR
OcrSuccess(path) ==
    [none |-> FALSE, image_path |-> Basename(path), text |-> "text", error |-> FALSE]

\* lines 262-268: except Exception: the result of a failed OCR
OcrFailure(path) ==
    [none |-> FALSE, image_path |-> Basename(path), text |-> "[OCR Error: ...]", error |-> TRUE]

\* line 280: results[idx] = ...; the thread of image k owns slot k
ResultSlot(k) == k

\* line 290: thread.join() returns once the thread has finished
JoinNoWait(k) == TRUE
Joined(k) == wpc[k] = "finished"

\* lines 273-277
PipEnter ==
    /\ opc = "enter"
    /\ IF ~client
       THEN /\ opc' = "raised"
            /\ UNCHANGED <<results, idx, wpc, wres>>
       ELSE /\ results' = [k \in 1..Len(image_paths) |-> NoneResult]
            /\ wres' = [k \in 1..Len(image_paths) |-> NoneResult]
            /\ wpc' = [k \in 1..Len(image_paths) |-> "unstarted"]
            /\ idx' = 0
            /\ opc' = "start"
    /\ UNCHANGED <<client, image_paths, jidx, ocr_results>>
    /\ UNCHANGED <<mvars, svars>>

\* lines 283-286: create, record and start the next thread
PipStart ==
    /\ opc = "start"
    /\ IF idx < Len(image_paths)
       THEN /\ wpc' = [wpc EXCEPT ![idx + 1] = "running"]
            /\ idx' = idx + 1
            /\ UNCHANGED <<opc, jidx>>
       ELSE /\ opc' = "join"
            /\ jidx' = 0
            /\ UNCHANGED <<wpc, idx>>
    /\ UNCHANGED <<client, image_paths, results, wres, ocr_results>>
    /\ UNCHANGED <<mvars, svars>>

\* lines 209-268: ocr_image_with_mistral in the thread of image k: the OCR
\* succeeds, or any exception of it becomes an error result
WorkerOcr(k) ==
    /\ wpc[k] = "running"
    /\ \/ wres' = [wres EXCEPT ![k] = OcrSuccess(image_paths[k])]
       \/ wres' = [wres EXCEPT ![k] = OcrFailure(image_paths[k])]
    /\ wpc' = [wpc EXCEPT ![k] = "computed"]
    /\ UNCHANGED <<opc, client, image_paths, results, idx, jidx, ocr_results>>
    /\ UNCHANGED <<mvars, svars>>

\* line 280: results[idx] = the result; the thread ends
WorkerStore(k) ==
    /\ wpc[k] = "computed"
    /\ results' = [results EXCEPT ![ResultSlot(k)] = wres[k]]
    /\ wpc' = [wpc EXCEPT ![k] = "finished"]
    /\ UNCHANGED <<opc, client, image_paths, idx, wres, jidx, ocr_results>>
    /\ UNCHANGED <<mvars, svars>>

\* lines 289-292: join the threads in the order started, then return the
\* results that are not None
PipJoin ==
    /\ opc = "join"
    /\ IF jidx < Len(image_paths)
       THEN /\ Joined(jidx + 1)
            /\ jidx' = jidx + 1
            /\ UNCHANGED <<opc, ocr_results>>
       ELSE /\ ocr_results' = SelectSeq(results, LAMBDA r : ~r.none)
            /\ opc' = "returned"
            /\ jidx' = jidx
    /\ UNCHANGED <<client, image_paths, results, idx, wpc, wres>>
    /\ UNCHANGED <<mvars, svars>>

----------------------------------------------------------------------------
(* Specifications *)

Functions == {"find_almost_equal", "find_almost_equal_substring"}

\* the invocations `calls`, each about to run one of `fns` on arguments of `argSet`
MatcherInit(calls, fns, argSet) ==
    /\ active = calls
    /\ fn \in [calls -> fns]
    /\ s \in [calls -> argSet]
    /\ p \in [calls -> argSet]
    /\ args0 = [c \in calls |-> <<s[c], p[c]>>]
    /\ pc = [c \in calls |-> "call"]
    /\ n = [c \in calls |-> 0]
    /\ m = [c \in calls |-> 0]
    /\ i = [c \in calls |-> 0]
    /\ window = [c \in calls |-> <<>>]
    /\ j = [c \in calls |-> 0]
    /\ diff = [c \in calls |-> 0]
    /\ almost = [c \in calls |-> FALSE]
    /\ ret = [c \in calls |-> 0]
    /\ exc = [c \in calls |-> ""]
    /\ ncmp = [c \in calls |-> 0]

\* no request is being served
ServiceIdle ==
    /\ req = [endpoint |-> "", filename |-> NoneVal]
    /\ mistral_client = FALSE
    /\ hpc = "idle"
    /\ inflight = NoExc
    /\ response = NoResponse
    /\ page_count = 0 /\ page_num = 0 /\ total_chars = 0
    /\ temp_dir = "none"
    /\ pages = <<>>

\* process_images_parallel is not running
OcrIdle(paths) ==
    /\ opc = "idle"
    /\ client = FALSE
    /\ image_paths = paths
    /\ results = <<>> /\ wres = <<>> /\ wpc = <<>>
    /\ idx = 0 /\ jidx = 0
    /\ ocr_results = <<>>

\* one invocation of either function, on any text and pattern or None
Init ==
    /\ MatcherInit({1}, Functions, {Str(q) : q \in SeqsUpTo(MaxLen)} \cup {NoneVal})
    /\ ServiceIdle /\ OcrIdle(<<>>)

Next ==
    \/ \E c \in active : FaeCall(c)
    \/ \E c \in active : FaeFor(c)
    \/ \E c \in active : FaeZip(c)
    \/ \E c \in active : FaeIf(c)
    \/ \E c \in active : FasCall(c)
    \/ \E c \in active : FasFor(c)
    \/ \E c \in active : IsZip(c)
    \/ \E c \in active : FasIf(c)

Spec == Init /\ [][Next]_vars

\* two invocations of find_almost_equal whose steps interleave
InitConc ==
    /\ MatcherInit({1, 2}, {"find_almost_equal"}, {Str(q) : q \in SeqsUpTo(ConcLen)})
    /\ ServiceIdle /\ OcrIdle(<<>>)

NextConc ==
    \/ \E c \in active : FaeCall(c)
    \/ \E c \in active : FaeFor(c)
    \/ \E c \in active : FaeZip(c)
    \/ \E c \in active : FaeIf(c)

SpecConc == InitConc /\ [][NextConc]_vars

\* the threads created
Workers == DOMAIN wpc

NextOcr ==
    \/ PipEnter
    \/ PipStart
    \/ \E k \in Workers : WorkerOcr(k)
    \/ \E k \in Workers : WorkerStore(k)
    \/ PipJoin

\* one upload to either endpoint, with or without a Mistral client
InitService ==
    /\ MatcherInit({}, Functions, {})
    /\ req \in [endpoint : Endpoints, filename : FileNames]
    /\ mistral_client \in BOOLEAN
    /\ hpc = "validate"
    /\ inflight = NoExc
    /\ response = NoResponse
    /\ page_count = 0 /\ page_num = 0 /\ total_chars = 0
    /\ temp_dir = "none"
    /\ pages = <<>>
    /\ OcrIdle(<<>>)

NextService ==
    \/ ExtValidate \/ ExtOpen \/ ExtPage \/ ExtExcept
    \/ PptValidate \/ PptSave \/ PptExtract \/ PptOcrCall \/ PptOcrReturn
    \/ PptPage \/ PptExcept \/ PptFinally
    \/ RespondError
    \/ NextOcr

SpecService == InitService /\ [][NextService]_vars

\* the paths a list of image paths is drawn from
Paths == {<<"t", "/", "x">>, <<"t", "/", "y">>, <<"x">>}

\* process_images_parallel called on any list of image paths, with a client or None
InitOcr ==
    /\ MatcherInit({}, Functions, {})
    /\ ServiceIdle
    /\ opc = "enter"
    /\ client \in BOOLEAN
    /\ image_paths \in UNION {[1..l -> Paths] : l \in 0..MaxImages}
    /\ results = <<>> /\ wres = <<>> /\ wpc = <<>>
    /\ idx = 0 /\ jidx = 0
    /\ ocr_results = <<>>

SpecOcr == InitOcr /\ [][NextOcr]_vars

----------------------------------------------------------------------------
(* The function run alone, computed as the code computes it *)

\* lines 4-9: the value of diff when the inner loop ends, from pair k on
RECURSIVE DiffAfterZip(_, _, _, _)
DiffAfterZip(w, q, k, d) ==
    IF k > ZipLen(w, q) THEN d
    ELSE LET d2 == IF w[k] # q[k] THEN d + 1 ELSE d
         IN IF w[k] # q[k] /\ d2 > 1 THEN d2 ELSE DiffAfterZip(w, q, k + 1, d2)

\* lines 3-12: the outer loop from offset o on
RECURSIVE FindFrom(_, _, _)
FindFrom(T, P, o) ==
    IF o >= Len(T) - Len(P) + 1 THEN -1
    ELSE IF DiffAfterZip(PySlice(T, o, o + Len(P)), P, 1, 0) <= 1 THEN o
         ELSE FindFrom(T, P, o + 1)

find_almost_equal(T, P) == FindFrom(T, P, 0)

----------------------------------------------------------------------------
(* Vocabulary of the claims *)

Text(c) == args0[c][1].seq
Pattern(c) == args0[c][2].seq
WellFormed(c) == ~args0[c][1].none /\ ~args0[c][2].none
Returned(c) == pc[c] = "returned"

\* the number of positions at which two sequences of one length differ
Hamming(u, v) == Cardinality({k \in 1..Len(u) : u[k] # v[k]})

\* the offsets at which a window of the pattern's length exists
Offsets(T, P) == 0..(Len(T) - Len(P))
WindowAt(T, P, o) == SubSeq(T, o + 1, o + Len(P))
Qualifies(T, P, o) == o \in Offsets(T, P) /\ Hamming(WindowAt(T, P, o), P) <= 1
ExactAt(T, P, o) == o \in Offsets(T, P) /\ WindowAt(T, P, o) = P

\* inside the comparison of one window
InWindow(c) == pc[c] \in {"zip", "if_diff", "is_zip", "if_almost"}

\* C1: a returned offset other than -1 lies in 0..len(T)-len(P), its window
\* differs from the pattern in at most one position, and no smaller offset
\* has such a window (both functions)
C1_OffsetQualifiesAndIsSmallest ==
    \A c \in active :
        (Returned(c) /\ ret[c] # -1) =>
            /\ Qualifies(Text(c), Pattern(c), ret[c])
            /\ \A o \in 0..(ret[c] - 1) : ~Qualifies(Text(c), Pattern(c), o)

\* a call returned an offset > 0 whose window has exactly one mismatch
C1_Witness ==
    \E c \in active :
        /\ Returned(c) /\ ret[c] > 0
        /\ Hamming(WindowAt(Text(c), Pattern(c), ret[c]), Pattern(c)) = 1

\* C2 as stated: when the pattern occurs exactly in the text and k is the
\* smallest offset of an exact occurrence, the call returns k
C2_ReturnsFirstExactOffset ==
    \A c \in active :
        Returned(c) =>
            \A k \in Offsets(Text(c), Pattern(c)) :
                (/\ ExactAt(Text(c), Pattern(c), k)
                 /\ \A o \in 0..(k - 1) : ~ExactAt(Text(c), Pattern(c), o))
                    => ret[c] = k

\* C2 amended: when the pattern occurs exactly in the text with smallest
\* exact offset k, the call returns an offset r with 0 <= r <= k, and r = k
\* when no offset below k has a window within one mismatch of the pattern
C2_ReturnsAtMostFirstExactOffset ==
    \A c \in active :
        Returned(c) =>
            \A k \in Offsets(Text(c), Pattern(c)) :
                (/\ ExactAt(Text(c), Pattern(c), k)
                 /\ \A o \in 0..(k - 1) : ~ExactAt(Text(c), Pattern(c), o))
                    => /\ 0 <= ret[c] /\ ret[c] <= k
                       /\ (\A o \in 0..(k - 1) : ~Qualifies(Text(c), Pattern(c), o))
                              => ret[c] = k

\* the pattern occurs exactly, first at k > 0, and the call returned an
\* offset below k
C2_Witness ==
    \E c \in active :
        /\ Returned(c)
        /\ \E k \in Offsets(Text(c), Pattern(c)) :
              /\ k > 0
              /\ ExactAt(Text(c), Pattern(c), k)
              /\ \A o \in 0..(k - 1) : ~ExactAt(Text(c), Pattern(c), o)
              /\ 0 <= ret[c] /\ ret[c] < k

\* C3: on sequences, a call never raises, and it returns -1 exactly when no
\* offset in 0..len(T)-len(P) has a window within one mismatch of the pattern
C3_NotFoundIffNoOffsetQualifies ==
    \A c \in active :
        WellFormed(c) =>
            /\ pc[c] # "raised"
            /\ Returned(c) =>
                  (ret[c] = -1 <=>
                      \A o \in Offsets(Text(c), Pattern(c)) :
                          ~Qualifies(Text(c), Pattern(c), o))

\* a call returned -1 after examining at least two windows
C3_Witness ==
    \E c \in active :
        /\ Returned(c) /\ ret[c] = -1
        /\ Len(Text(c)) > Len(Pattern(c)) /\ ncmp[c] >= 2

\* C4: when the pattern is longer than the text, the call compares no
\* element, never enters a window, and returns -1
C4_LongerPatternNotFound ==
    \A c \in active :
        (WellFormed(c) /\ Len(Pattern(c)) > Len(Text(c))) =>
            /\ ncmp[c] = 0
            /\ pc[c] \in {"call", "for_i", "returned"}
            /\ Returned(c) => ret[c] = -1

\* a call on the empty text and a non-empty pattern returned -1
C4_Witness ==
    \E c \in active :
        /\ Returned(c) /\ ret[c] = -1
        /\ WellFormed(c) /\ Text(c) = <<>> /\ Len(Pattern(c)) > 0

\* C5: with the empty pattern the call returns offset 0 for every text,
\* the empty one included, and never raises
C5_EmptyPatternReturnsZero ==
    \A c \in active :
        (WellFormed(c) /\ Pattern(c) = <<>>) =>
            /\ pc[c] # "raised"
            /\ Returned(c) => ret[c] = 0

\* find("", "") returned 0
C5_Witness ==
    \E c \in active :
        /\ Returned(c) /\ ret[c] = 0
        /\ WellFormed(c) /\ Text(c) = <<>> /\ Pattern(c) = <<>>

\* C6: with None for the text or the pattern the call examines no window and
\* returns nothing: it ends by raising TypeError
C6_NoneRaisesBeforeAnyWindow ==
    \A c \in active :
        ~WellFormed(c) =>
            /\ pc[c] \in {"call", "raised"}
            /\ ncmp[c] = 0
            /\ pc[c] = "raised" => exc[c] = "TypeError"

\* a call given None as its pattern has raised
C6_Witness ==
    \E c \in active :
        /\ pc[c] = "raised" /\ exc[c] = "TypeError"
        /\ args0[c][2].none /\ ~args0[c][1].none

\* C7: under every interleaving of concurrent invocations the arguments are
\* unchanged and each invocation returns what the function returns alone
C7_ConcurrentCallsAreIndependent ==
    \A c \in active :
        /\ s[c] = args0[c][1] /\ p[c] = args0[c][2]
        /\ Returned(c) => ret[c] = find_almost_equal(Text(c), Pattern(c))

\* invocation 1 has returned -1 after two mismatches while invocation 2, on
\* other arguments, is in the middle of a window with one mismatch counted
C7_Witness ==
    /\ active = {1, 2}
    /\ Returned(1) /\ ret[1] = -1 /\ ncmp[1] >= 2
    /\ pc[2] = "zip" /\ j[2] = 1 /\ diff[2] = 1
    /\ args0[1] # args0[2]

\* C8: the mismatch counter never exceeds 2, it counts the mismatches among
\* the pairs compared, and no pair is compared once two mismatches were seen:
\* the pairs before the last one compared hold at most one mismatch
C8_ComparisonStopsAtSecondMismatch ==
    \A c \in active :
        /\ diff[c] <= 2
        /\ InWindow(c) =>
              /\ diff[c] = Hamming(SubSeq(window[c], 1, j[c]), SubSeq(p[c].seq, 1, j[c]))
              /\ j[c] >= 1 =>
                    Hamming(SubSeq(window[c], 1, j[c] - 1),
                            SubSeq(p[c].seq, 1, j[c] - 1)) <= 1

\* the inner loop of find_almost_equal was left at the second mismatch with
\* a pair of the window still uncompared
C8_Witness ==
    \E c \in active :
        /\ fn[c] = "find_almost_equal" /\ pc[c] = "if_diff"
        /\ diff[c] = 2 /\ j[c] < m[c]

\* the upload's file name, and whether it passes each handler's test
FileName == req.filename.seq
IsPdfName == EndsWith(Lower(FileName), DotPdf)
IsPptxName == EndsWith(Lower(FileName), DotPptx)

\* C9: an upload to /extract-text whose file name does not end in ".pdf" is
\* answered 400 "Only PDF files are supported", and one to /process-pptx
\* whose file name does not end in ".pptx" is answered 400 "Only PPTX files
\* are supported"; neither is turned into a 500
C9_WrongFileTypeAnswered400 ==
    (hpc = "done" /\ ~req.filename.none) =>
        /\ (req.endpoint = "/extract-text" /\ ~IsPdfName) =>
              response = [status |-> 400, detail |-> <<"Only PDF files are supported">>]
        /\ (req.endpoint = "/process-pptx" /\ ~IsPptxName) =>
              response = [status |-> 400, detail |-> <<"Only PPTX files are supported">>]

\* C10: process_images_parallel returns only when every thread it started
\* has finished, and the list it returns has one entry per image path, entry
\* k being what the thread of image_paths[k] computed: its image_path is the
\* basename of image_paths[k], and a failed OCR is an "[OCR Error: ...]"
\* entry in that place
C10_OneResultPerImageInOrder ==
    opc = "returned" =>
        /\ client
        /\ \A k \in Workers : wpc[k] = "finished"
        /\ Len(wpc) = Len(image_paths)
        /\ Len(ocr_results) = Len(image_paths)
        /\ \A k \in 1..Len(image_paths) :
              /\ ocr_results[k] = wres[k]
              /\ ocr_results[k].image_path = Basename(image_paths[k])
              /\ ocr_results[k].text = IF wres[k].error THEN "[OCR Error: ...]" ELSE "text"

\* the call returned for three images, two of them different, the OCR of
\* the first failed and that of the second succeeded
C10_Witness ==
    /\ opc = "returned"
    /\ Len(image_paths) = 3
    /\ Basename(image_paths[1]) # Basename(image_paths[2])
    /\ ocr_results[1].error /\ ~ocr_results[2].error

====
